---- MODULE Spec2Model ----
(***************************************************************************)
(* Model of the persistent scheduler bot (src/bot.py).                     *)
(*                                                                         *)
(* State: the sqlite table `schedules`, the in-memory job queue (timers    *)
(* armed with run_once), the alarm() coroutines in flight, the position of *)
(* the schedule() handler and of main()'s startup recovery, and the wall   *)
(* clock.  Strings are sequences of one-character strings.  Time is in     *)
(* whole seconds.                                                          *)
(*                                                                         *)
(* The asyncio event loop runs one coroutine at a time and switches only   *)
(* at an `await`; the code between two awaits is split into several        *)
(* actions only where it reads the clock twice or where a crash or a       *)
(* storage error can separate its effects, and SyncBusy keeps every other  *)
(* coroutine from running in between.                                      *)
(***************************************************************************)
EXTENDS Integers, Sequences, FiniteSets, TLC

\* ---------------------------------------------------------------- bounds
MaxTime == 2
MaxJobs == 1
MaxCrashes == 1
MaxIds == 2

\* ------------------------------------------------------- program constants
ADMIN_USERID == <<"1">>

FREECREDENTIAL == <<"/","f","r","e","e","c","r","e","d","e","n","t","i","a","l">>

SEEDETAILS == <<"/","s","e","e","d","e","t","a","i","l","s">>

\* ------------------------------------------------------------------ inputs
\* the ids uuid4 can return; schedule() is followed for the first MaxJobs of them
JobIds == 1..MaxIds

Users == {1, 2}

DelayTokens == { <<"0">>, <<"1">>, <<"2">>, <<"-","1">> }

\* context.args of the requests tried: well-formed ones, then one of each
\* malformed kind (argument count, delay, command, target)
ArgLists ==
    { <<d, FREECREDENTIAL, <<"7">>>> : d \in DelayTokens }
      \cup { <<<<"1">>, FREECREDENTIAL>>,
             <<<<"x">>, FREECREDENTIAL, <<"7">>>>,
             <<<<"1">>, SEEDETAILS, <<"7">>>>,
             <<<<"1">>, FREECREDENTIAL, <<"a">>>> }

\* the updates tried: every argument list from the admin, one from a stranger
Requests ==
    { [user_id |-> 1, args |-> a] : a \in ArgLists }
      \cup { [user_id |-> 2, args |-> <<<<"1">>, FREECREDENTIAL, <<"7">>>>] }

\* ------------------------------------------------------------ pure helpers
Digits == {"0","1","2","3","4","5","6","7","8","9"}

DigitVal(c) ==
    CASE c = "0" -> 0 [] c = "1" -> 1 [] c = "2" -> 2 [] c = "3" -> 3
      [] c = "4" -> 4 [] c = "5" -> 5 [] c = "6" -> 6 [] c = "7" -> 7
      [] c = "8" -> 8 [] c = "9" -> 9

DigitChar(n) ==
    CASE n = 0 -> "0" [] n = 1 -> "1" [] n = 2 -> "2" [] n = 3 -> "3"
      [] n = 4 -> "4" [] n = 5 -> "5" [] n = 6 -> "6" [] n = 7 -> "7"
      [] n = 8 -> "8" [] n = 9 -> "9"

\* str.isdigit(): non-empty and every character a digit
isdigit(s) == Len(s) > 0 /\ \A i \in 1..Len(s) : s[i] \in Digits

RECURSIVE DecVal(_)
DecVal(s) ==
    IF s = <<>> THEN 0
    ELSE 10 * DecVal(SubSeq(s, 1, Len(s) - 1)) + DigitVal(s[Len(s)])

\* int(s) raises ValueError unless s is an optionally signed run of digits
IsIntLiteral(s) ==
    /\ Len(s) > 0
    /\ IF s[1] \in {"+", "-"} THEN isdigit(Tail(s)) ELSE isdigit(s)

int(s) ==
    IF s[1] = "-" THEN 0 - DecVal(Tail(s))
    ELSE IF s[1] = "+" THEN DecVal(Tail(s))
    ELSE DecVal(s)

\* str(user_id) for a non-negative integer
RECURSIVE str(_)
str(n) == IF n < 10 THEN <<DigitChar(n)>> ELSE str(n \div 10) \o <<DigitChar(n % 10)>>

\* faulty variant: the target id is not checked
ValidArgs_AnyTarget(args) ==
    /\ Len(args) = 3
    /\ IsIntLiteral(args[1])
    /\ args[2] = FREECREDENTIAL

\* schedule()'s checks on context.args: TRUE when no ValueError is raised
ValidArgs(args) ==
    /\ Len(args) = 3
    /\ IsIntLiteral(args[1])
    /\ args[2] = FREECREDENTIAL
    /\ isdigit(args[3])

command_to_send(target_user_id) == FREECREDENTIAL \o <<" ">> \o target_user_id

details_command_to_send(target_user_id) == SEEDETAILS \o <<" ">> \o target_user_id

\* ------------------------------------------------------------------- state
VARIABLES
    now,          \* wall clock, seconds
    mainPc,       \* "down" | "query" | "readnow" | "loop" | "polling"
    schedules,    \* rows of the sqlite table (survives a crash)
    timers,       \* jobs armed in the job queue (lost in a crash)
    alarms,       \* alarm() coroutines in flight
    sub,          \* the schedule() handler in flight, or NoSub
    pending_jobs, \* main(): rows fetched by get_pending_schedules, not yet armed
    recNow,       \* main(): the local `now` (0 outside the recovery loop)
    usedIds,      \* job ids uuid4 has returned
    issued,       \* history: the ids uuid4 returned, in order
    storeOp,      \* history: the last direct call on the table and its outcome
    alarmCount,   \* history: alarm() invocations per job id, over all runs
    runCount,     \* history: alarm() invocations per job id, in this run
    failedRun,    \* history: alarms that raised in a send in this run
    doneOk,       \* history: job ids whose alarm() returned normally
    insertFailed, \* history: job ids whose add_schedule_to_db raised
    removeFailed, \* history: job ids whose remove_schedule_from_db raised
    crashes,      \* history: number of crashes
    queryAt,      \* history: the clock value this run's startup query compared with
    posDelay,     \* history: job ids submitted with a delay of at least 1
    submitted,    \* history: the job data of the requests schedule() accepted
    acked         \* history: the records whose confirmation reply was sent

vars == <<now, mainPc, schedules, timers, alarms, sub, pending_jobs, recNow,
          usedIds, issued, storeOp, alarmCount, runCount, failedRun, doneOk,
          insertFailed, removeFailed, crashes, queryAt, posDelay, submitted,
          acked>>

hist == <<issued, storeOp, alarmCount, runCount, failedRun, doneOk,
          insertFailed, removeFailed, crashes, queryAt, posDelay, submitted,
          acked>>

NoSub == [pc |-> "idle"]

NoOp == [op |-> "none"]

\* ------------------------------------------------------------ the Store
RowsOf(rows, job_id) == {r \in rows : r.job_id = job_id}

StoredIds(rows) == {r.job_id : r \in rows}

\* faulty variant: job_id carries no uniqueness constraint
InsertOk_NoKey(rows, job_id) == TRUE

\* job_id is the PRIMARY KEY: the INSERT raises IntegrityError on a present id
InsertOk(rows, job_id) == job_id \notin StoredIds(rows)

\* faulty variant: the INSERT is never committed
add_schedule_to_db_NoCommit(rows, job_id, chat_id, command, details_command, run_at) ==
    rows

add_schedule_to_db(rows, job_id, chat_id, command, details_command, run_at) ==
    rows \cup {[job_id |-> job_id, chat_id |-> chat_id,
                command_to_send |-> command,
                details_command_to_send |-> details_command,
                run_at |-> run_at]}

\* faulty variant: the DELETE matches no row
remove_schedule_from_db_NoDelete(rows, job_id) == rows

\* faulty variant: the DELETE has no WHERE clause
remove_schedule_from_db_AllRows(rows, job_id) == {}

remove_schedule_from_db(rows, job_id) == {r \in rows : r.job_id # job_id}

get_pending_schedules(rows, t) == {r \in rows : r.run_at > t}

\* ------------------------------------------------------------ the job queue
\* the queue's own handle of a job, distinct from every handle it holds
NewHandle(q) == CHOOSE n \in 1..(Cardinality(q) + 1) : n \notin {t.h : t \in q}

\* Python's None, as the value of a chat id; no Telegram chat has id 0
None == 0

\* job_queue.run_once(alarm, when=delay, data={...}, name=job_id) called at
\* time t.  No call passes chat_id=, so the job's chat_id attribute is None;
\* the chat id that was asked for travels in data only.
run_once(q, t, when, data_chat_id, command, details_command, job_id) ==
    q \cup {[job_id |-> job_id, chat_id |-> None, data_chat_id |-> data_chat_id,
             command |-> command, details_command |-> details_command,
             fireAt |-> t + when, h |-> NewHandle(q)]}

TimerIds(q) == {t.job_id : t \in q}

\* faulty variant: the generator may return an id it returned before
uuid4_Reuse(used) == JobIds

\* uuid4(): an id no earlier call returned.  Ids are opaque and
\* interchangeable, so the least unused one stands for any of them.
uuid4(used) == {j \in JobIds \ used : \A k \in JobIds \ used : j <= k}

\* a coroutine is between two awaits: no other coroutine runs
SyncBusy == sub.pc \in {"start", "armed"} \/ \E a \in alarms : a.pc = "remove"

\* -------------------------------------------------------------------- Init
Init ==
    /\ now = 0
    /\ mainPc = "down"
    /\ schedules = {}
    /\ timers = {}
    /\ alarms = {}
    /\ sub = NoSub
    /\ pending_jobs = {}
    /\ recNow = 0
    /\ usedIds = {}
    /\ issued = <<>>
    /\ storeOp = NoOp
    /\ alarmCount = [j \in JobIds |-> 0]
    /\ runCount = [j \in JobIds |-> 0]
    /\ failedRun = {}
    /\ doneOk = {}
    /\ insertFailed = {}
    /\ removeFailed = {}
    /\ crashes = 0
    /\ queryAt = 0
    /\ posDelay = {}
    /\ submitted = {}
    /\ acked = {}

\* ------------------------------------------------------------- environment
Tick ==
    /\ now < MaxTime
    /\ now' = now + 1
    /\ UNCHANGED <<mainPc, schedules, timers, alarms, sub, pending_jobs, recNow,
                   usedIds, hist>>

\* the process dies: everything in memory is lost, the table stays
Crash ==
    /\ mainPc # "down"
    /\ crashes < MaxCrashes
    /\ mainPc' = "down"
    /\ timers' = {}
    /\ alarms' = {}
    /\ sub' = NoSub
    /\ pending_jobs' = {}
    /\ runCount' = [j \in JobIds |-> 0]
    /\ failedRun' = {}
    /\ crashes' = crashes + 1
    /\ recNow' = 0
    /\ queryAt' = 0
    /\ UNCHANGED <<now, schedules, usedIds, issued, storeOp, alarmCount, doneOk,
                   insertFailed, removeFailed, posDelay, submitted, acked>>

\* ------------------------------------------------------------------ main()
\* main() up to init_db() and Application.builder()
Start ==
    /\ mainPc = "down"
    /\ mainPc' = "query"
    /\ UNCHANGED <<now, schedules, timers, alarms, sub, pending_jobs, recNow,
                   usedIds, hist>>

\* pending_jobs = get_pending_schedules()
RecoverQuery ==
    /\ mainPc = "query"
    /\ pending_jobs' = get_pending_schedules(schedules, now)
    /\ mainPc' = "readnow"
    /\ queryAt' = now
    /\ UNCHANGED <<now, schedules, timers, alarms, sub, recNow, usedIds, issued,
                   storeOp, alarmCount, runCount, failedRun, doneOk,
                   insertFailed, removeFailed, crashes, posDelay, submitted,
                   acked>>

\* now = datetime.now(timezone.utc)
RecoverReadNow ==
    /\ mainPc = "readnow"
    /\ recNow' = now
    /\ mainPc' = "loop"
    /\ UNCHANGED <<now, schedules, timers, alarms, sub, pending_jobs, usedIds,
                   hist>>

\* faulty variant: the remaining delay is not floored at zero
RecoverDelay_NoClamp(run_at, t) == run_at - t

\* the delay main() hands to run_once for a fetched row
RecoverDelay(run_at, t) == IF run_at - t < 0 THEN 0 ELSE run_at - t

\* faulty variant: the iteration also rewrites the row with a fresh run_at
RecoverArm_Restamp ==
    /\ mainPc = "loop"
    /\ \E job_data \in pending_jobs :
         /\ timers' = run_once(timers, now, RecoverDelay(job_data.run_at, recNow),
                               job_data.chat_id, job_data.command_to_send,
                               job_data.details_command_to_send, job_data.job_id)
         /\ schedules' = (schedules \ {job_data}) \cup
                {[job_data EXCEPT
                    !.run_at = now + RecoverDelay(job_data.run_at, recNow)]}
         /\ pending_jobs' = pending_jobs \ {job_data}
    /\ UNCHANGED <<now, mainPc, alarms, sub, recNow, usedIds, hist>>

\* one iteration of `for job_data in pending_jobs`
RecoverArm ==
    /\ mainPc = "loop"
    /\ \E job_data \in pending_jobs :
         /\ timers' = run_once(timers, now, RecoverDelay(job_data.run_at, recNow),
                               job_data.chat_id, job_data.command_to_send,
                               job_data.details_command_to_send, job_data.job_id)
         /\ pending_jobs' = pending_jobs \ {job_data}
    /\ UNCHANGED <<now, mainPc, schedules, alarms, sub, recNow, usedIds, hist>>

\* the loop is over: add the handlers and run_polling()
RecoverDone ==
    /\ mainPc = "loop"
    /\ pending_jobs = {}
    /\ mainPc' = "polling"
    /\ recNow' = 0
    /\ UNCHANGED <<now, schedules, timers, alarms, sub, pending_jobs, usedIds,
                   hist>>

\* -------------------------------------------------------------- schedule()
HandlerFree == mainPc = "polling" /\ ~SyncBusy /\ sub = NoSub

\* the bound on submissions leaves room for one more job
CanSubmit == \E job_id \in uuid4(usedIds) : job_id <= MaxJobs

\* the dispatcher calls schedule(update, context)
ScheduleReceive ==
    /\ HandlerFree
    /\ \E req \in Requests :
         /\ (str(req.user_id) = ADMIN_USERID /\ ValidArgs(req.args)) => CanSubmit
         /\ sub' = [pc |-> "start", user_id |-> req.user_id, args |-> req.args]
    /\ UNCHANGED <<now, mainPc, schedules, timers, alarms, pending_jobs, recNow,
                   usedIds, hist>>

\* `if str(user_id) != ADMIN_USERID: return`
ScheduleUnauthorized ==
    /\ sub.pc = "start"
    /\ str(sub.user_id) # ADMIN_USERID
    /\ sub' = NoSub
    /\ UNCHANGED <<now, mainPc, schedules, timers, alarms, pending_jobs, recNow,
                   usedIds, hist>>

\* ValueError: the "Invalid format" reply
ScheduleInvalid ==
    /\ sub.pc = "start"
    /\ str(sub.user_id) = ADMIN_USERID
    /\ ~ValidArgs(sub.args)
    /\ sub' = NoSub
    /\ UNCHANGED <<now, mainPc, schedules, timers, alarms, pending_jobs, recNow,
                   usedIds, hist>>

\* an accepted request, up to and including job_queue.run_once
ScheduleArm ==
    /\ sub.pc = "start"
    /\ str(sub.user_id) = ADMIN_USERID
    /\ ValidArgs(sub.args)
    /\ \E job_id \in uuid4(usedIds) :
         /\ job_id <= MaxJobs
         /\ timers' = run_once(timers, now, int(sub.args[1]), sub.user_id,
                               command_to_send(sub.args[3]),
                               details_command_to_send(sub.args[3]), job_id)
         /\ sub' = [pc |-> "armed", job_id |-> job_id, user_id |-> sub.user_id,
                    delay_seconds |-> int(sub.args[1]),
                    target_user_id |-> sub.args[3]]
         /\ usedIds' = usedIds \cup {job_id}
         /\ issued' = Append(issued, job_id)
         /\ posDelay' = IF int(sub.args[1]) >= 1 THEN posDelay \cup {job_id}
                        ELSE posDelay
         /\ submitted' = submitted \cup
                {[job_id |-> job_id, chat_id |-> sub.user_id,
                  command |-> command_to_send(sub.args[3]),
                  details_command |-> details_command_to_send(sub.args[3])]}
    /\ UNCHANGED <<now, mainPc, schedules, alarms, pending_jobs, recNow,
                   storeOp, alarmCount, runCount, failedRun, doneOk,
                   insertFailed, removeFailed, crashes, queryAt, acked>>

\* run_at_time = now() + delay; add_schedule_to_db commits
ScheduleStore ==
    /\ sub.pc = "armed"
    /\ InsertOk(schedules, sub.job_id)
    /\ schedules' = add_schedule_to_db(schedules, sub.job_id, sub.user_id,
                                       command_to_send(sub.target_user_id),
                                       details_command_to_send(sub.target_user_id),
                                       now + sub.delay_seconds)
    /\ sub' = [pc |-> "reply", job_id |-> sub.job_id, user_id |-> sub.user_id,
               delay_seconds |-> sub.delay_seconds,
               target_user_id |-> sub.target_user_id,
               run_at_time |-> now + sub.delay_seconds]
    /\ UNCHANGED <<now, mainPc, timers, alarms, pending_jobs, recNow, usedIds,
                   hist>>

\* add_schedule_to_db raises sqlite3.Error: not caught by schedule()
ScheduleStoreFail ==
    /\ sub.pc = "armed"
    /\ sub' = NoSub
    /\ insertFailed' = insertFailed \cup {sub.job_id}
    /\ UNCHANGED <<now, mainPc, schedules, timers, alarms, pending_jobs, recNow,
                   usedIds, issued, storeOp, alarmCount, runCount, failedRun,
                   doneOk, removeFailed, crashes, queryAt, posDelay, submitted,
                   acked>>

\* `await update.message.reply_text("Understood! ...")` returns
ScheduleReply ==
    /\ sub.pc = "reply"
    /\ ~SyncBusy
    /\ sub' = NoSub
    /\ acked' = acked \cup
          {[job_id |-> sub.job_id, chat_id |-> sub.user_id,
            command_to_send |-> command_to_send(sub.target_user_id),
            details_command_to_send |-> details_command_to_send(sub.target_user_id),
            run_at |-> sub.run_at_time]}
    /\ UNCHANGED <<now, mainPc, schedules, timers, alarms, pending_jobs, recNow,
                   usedIds, issued, storeOp, alarmCount, runCount, failedRun,
                   doneOk, insertFailed, removeFailed, crashes, queryAt,
                   posDelay, submitted>>

\* ------------------------------------------------- updates without a handler
\* main() registers handlers for /schedule and /start only.  A "/cancel <id>"
\* message for a generated id arrives ...
CancelReceive ==
    /\ HandlerFree
    /\ \E job_id \in usedIds :
         sub' = [pc |-> "unhandled", command |-> "cancel", job_id |-> job_id]
    /\ UNCHANGED <<now, mainPc, schedules, timers, alarms, pending_jobs, recNow,
                   usedIds, hist>>

\* ... and, matching no handler, is dropped by the application
UpdateUnhandled ==
    /\ sub.pc = "unhandled"
    /\ sub' = NoSub
    /\ UNCHANGED <<now, mainPc, schedules, timers, alarms, pending_jobs, recNow,
                   usedIds, hist>>

\* ------------------------------------------------------------------ alarm()
\* faulty variant: the job stays in the queue after it ran (a repeating job)
AlarmFire_Repeating ==
    /\ mainPc = "polling"
    /\ ~SyncBusy
    /\ \E t \in timers :
         /\ now >= t.fireAt
         /\ alarmCount[t.job_id] <= MaxCrashes + 1
         /\ alarms' = alarms \cup {[job_id |-> t.job_id, chat_id |-> t.chat_id,
                                    command |-> t.command,
                                    details_command |-> t.details_command,
                                    h |-> t.h, firedAt |-> now, pc |-> "send1",
                                    sent |-> <<>>]}
         /\ alarmCount' = [alarmCount EXCEPT ![t.job_id] = @ + 1]
         /\ runCount' = [runCount EXCEPT ![t.job_id] = @ + 1]
    /\ UNCHANGED <<now, mainPc, schedules, timers, sub, pending_jobs, recNow,
                   usedIds, issued, storeOp, failedRun, doneOk, insertFailed,
                   removeFailed, crashes, queryAt, posDelay, submitted, acked>>

\* the job queue invokes alarm() for a due job; the job leaves the queue
AlarmFire ==
    /\ mainPc = "polling"
    /\ ~SyncBusy
    /\ \E t \in timers :
         /\ now >= t.fireAt
         /\ timers' = timers \ {t}
         /\ alarms' = alarms \cup {[job_id |-> t.job_id, chat_id |-> t.chat_id,
                                    command |-> t.command,
                                    details_command |-> t.details_command,
                                    h |-> t.h, firedAt |-> now, pc |-> "send1",
                                    sent |-> <<>>]}
         /\ alarmCount' = [alarmCount EXCEPT ![t.job_id] = @ + 1]
         /\ runCount' = [runCount EXCEPT ![t.job_id] = @ + 1]
    /\ UNCHANGED <<now, mainPc, schedules, sub, pending_jobs, recNow, usedIds,
                   issued, storeOp, failedRun, doneOk, insertFailed,
                   removeFailed, crashes, queryAt, posDelay, submitted, acked>>

\* the text of alarm()'s first message (abridged)
NOTICE == <<"R","e","m","i","n","d","e","r">>

\* the send_message call alarm() is at: to job.chat_id, with that line's text
Message(a) ==
    [chat_id |-> a.chat_id,
     text |-> CASE a.pc = "send1" -> NOTICE
                [] a.pc = "send2" -> a.command
                [] a.pc = "send3" -> a.details_command]

\* faulty variant: the clean-up follows the second send
NextSend_Early(pc) ==
    CASE pc = "send1" -> "send2" [] pc = "send2" -> "remove" [] pc = "send3" -> "remove"

NextSend(pc) ==
    CASE pc = "send1" -> "send2" [] pc = "send2" -> "send3" [] pc = "send3" -> "remove"

\* one `await context.bot.send_message(...)` returns
AlarmSendOk ==
    /\ ~SyncBusy
    /\ \E a \in alarms :
         /\ a.pc \in {"send1", "send2", "send3"}
         /\ alarms' = (alarms \ {a}) \cup
                {[a EXCEPT !.pc = NextSend(a.pc), !.sent = Append(@, Message(a))]}
    /\ UNCHANGED <<now, mainPc, schedules, timers, sub, pending_jobs, recNow,
                   usedIds, hist>>

\* faulty variant: alarm() cleans the table up in a `finally`
OnSendError_Cleanup(rows, job_id) == remove_schedule_from_db(rows, job_id)

\* what alarm() does to the table when a send raises
OnSendError(rows, job_id) == rows

\* one send_message raises: alarm() ends there
AlarmSendFail ==
    /\ ~SyncBusy
    /\ \E a \in alarms :
         /\ a.pc \in {"send1", "send2", "send3"}
         /\ alarms' = alarms \ {a}
         /\ schedules' = OnSendError(schedules, a.job_id)
         /\ failedRun' = failedRun \cup
                {[job_id |-> a.job_id, rows |-> RowsOf(schedules, a.job_id)]}
    /\ UNCHANGED <<now, mainPc, timers, sub, pending_jobs, recNow, usedIds,
                   issued, storeOp, alarmCount, runCount, doneOk, insertFailed,
                   removeFailed, crashes, queryAt, posDelay, submitted, acked>>

\* remove_schedule_from_db(job.data["job_id"]) commits; alarm() returns
AlarmRemove ==
    /\ \E a \in alarms :
         /\ a.pc = "remove"
         /\ schedules' = remove_schedule_from_db(schedules, a.job_id)
         /\ alarms' = alarms \ {a}
         /\ doneOk' = doneOk \cup {a.job_id}
    /\ UNCHANGED <<now, mainPc, timers, sub, pending_jobs, recNow, usedIds,
                   issued, storeOp, alarmCount, runCount, failedRun,
                   insertFailed, removeFailed, crashes, queryAt, posDelay,
                   submitted, acked>>

\* remove_schedule_from_db raises sqlite3.Error
AlarmRemoveFail ==
    /\ \E a \in alarms :
         /\ a.pc = "remove"
         /\ alarms' = alarms \ {a}
         /\ removeFailed' = removeFailed \cup {a.job_id}
    /\ UNCHANGED <<now, mainPc, schedules, timers, sub, pending_jobs, recNow,
                   usedIds, issued, storeOp, alarmCount, runCount, failedRun,
                   doneOk, insertFailed, crashes, queryAt, posDelay, submitted,
                   acked>>

\* -------------------------------------------------------------------- Next
Next ==
    \/ Tick
    \/ Crash
    \/ Start
    \/ RecoverQuery
    \/ RecoverReadNow
    \/ RecoverArm
    \/ RecoverDone
    \/ ScheduleReceive
    \/ ScheduleUnauthorized
    \/ ScheduleInvalid
    \/ ScheduleArm
    \/ ScheduleStore
    \/ ScheduleStoreFail
    \/ ScheduleReply
    \/ CancelReceive
    \/ UpdateUnhandled
    \/ AlarmFire
    \/ AlarmSendOk
    \/ AlarmSendFail
    \/ AlarmRemove
    \/ AlarmRemoveFail

Spec == Init /\ [][Next]_vars

\* ------------------------------------------- the Store functions on their own
\* The table functions called directly, on any id and in any order, by a
\* process that may die and start again.
RunAts == 0..MaxTime

\* schedule()'s id generation and INSERT: uuid.uuid4() then add_schedule_to_db
StoreSubmit ==
    /\ mainPc # "down"
    /\ \E job_id \in uuid4(usedIds), run_at \in RunAts :
         /\ usedIds' = usedIds \cup {job_id}
         /\ issued' = Append(issued, job_id)
         /\ storeOp' = [op |-> "add", job_id |-> job_id, run_at |-> run_at,
                        ok |-> InsertOk(schedules, job_id), before |-> schedules]
         /\ schedules' = IF InsertOk(schedules, job_id)
                          THEN add_schedule_to_db(schedules, job_id, 1,
                                                  command_to_send(<<"1">>),
                                                  details_command_to_send(<<"1">>),
                                                  run_at)
                          ELSE schedules
    /\ UNCHANGED <<now, mainPc, timers, alarms, sub, pending_jobs, recNow,
                   alarmCount, runCount, failedRun, doneOk, insertFailed,
                   removeFailed, crashes, queryAt, posDelay, submitted, acked>>

\* add_schedule_to_db called with an id that was generated before
StoreAddAgain ==
    /\ mainPc # "down"
    /\ \E job_id \in usedIds, run_at \in RunAts :
         /\ storeOp' = [op |-> "add", job_id |-> job_id, run_at |-> run_at,
                        ok |-> InsertOk(schedules, job_id), before |-> schedules]
         /\ schedules' = IF InsertOk(schedules, job_id)
                          THEN add_schedule_to_db(schedules, job_id, 1,
                                                  command_to_send(<<"1">>),
                                                  details_command_to_send(<<"1">>),
                                                  run_at)
                          ELSE schedules
    /\ UNCHANGED <<now, mainPc, timers, alarms, sub, pending_jobs, recNow,
                   usedIds, issued, alarmCount, runCount, failedRun, doneOk,
                   insertFailed, removeFailed, crashes, queryAt, posDelay,
                   submitted, acked>>

\* remove_schedule_from_db called with any id, stored or not
StoreRemove ==
    /\ mainPc # "down"
    /\ \E job_id \in JobIds :
         /\ storeOp' = [op |-> "remove", job_id |-> job_id, before |-> schedules]
         /\ schedules' = remove_schedule_from_db(schedules, job_id)
    /\ UNCHANGED <<now, mainPc, timers, alarms, sub, pending_jobs, recNow,
                   usedIds, issued, alarmCount, runCount, failedRun, doneOk,
                   insertFailed, removeFailed, crashes, queryAt, posDelay,
                   submitted, acked>>

StoreNext ==
    \/ Start
    \/ Crash
    \/ StoreSubmit
    \/ StoreAddAgain
    \/ StoreRemove

StoreSpec == Init /\ [][StoreNext]_vars

\* ================================================================== claims
AlarmsOf(job_id) == {a \in alarms : a.job_id = job_id}

TimersOf(job_id) == {t \in timers : t.job_id = job_id}

\* the process is up and no schedule(), alarm() or recovery step is under way
Quiescent == mainPc = "polling" /\ sub = NoSub /\ alarms = {}

\* the startup query of this run did not read the clock at exactly r's run_at
\* (a case a microsecond clock does not produce)
OffInstant(r) == r.run_at # queryAt

\* r was submitted with a delay of at least one second
Delayed(r) == r.job_id \in posDelay

\* C1 (as claimed): at-least-once delivery.  A job accepted into the Store
\* whose run_at has passed while the process is up has been dispatched, or
\* still has a timer or a Submit under way that will dispatch it.
C1_AtLeastOnce ==
    mainPc = "polling" =>
        \A r \in schedules :
            (/\ Delayed(r) /\ now > r.run_at /\ OffInstant(r)
             /\ TimersOf(r.job_id) = {} /\ sub = NoSub)
                => alarmCount[r.job_id] >= 1

\* C2 (as claimed): recovery completeness.  When the startup loop has run
\* over records none of which was ever dispatched, there is exactly one timer
\* per stored job id.
C2_RecoveryComplete ==
    (/\ mainPc = "loop" /\ pending_jobs = {}
     /\ \A j \in JobIds : alarmCount[j] = 0
     /\ \A r \in schedules : Delayed(r) /\ OffInstant(r))
        => /\ TimerIds(timers) = StoredIds(schedules)
           /\ Cardinality(timers) = Cardinality(schedules)

\* C3 (as claimed): restart is the retry mechanism.  After a restart's
\* recovery, a record whose dispatch was invoked in an earlier run is armed
\* again, or has already been dispatched again in this run.
C3_RestartRetries ==
    mainPc = "polling" =>
        \A r \in schedules :
            (/\ alarmCount[r.job_id] >= 1 /\ runCount[r.job_id] = 0
             /\ Delayed(r) /\ OffInstant(r))
                => TimersOf(r.job_id) # {}

\* C4 (as claimed): no premature firing.  alarm() is never invoked at a time
\* earlier than the run_at stored for its job.
C4_NoPrematureFiring ==
    \A a \in alarms : \A r \in RowsOf(schedules, a.job_id) : a.firedAt >= r.run_at

\* C5: removal on success.  Once alarm() has returned normally for a job, the
\* job has no record in the Store, and nothing that could dispatch it again:
\* no timer, no row fetched by recovery, no alarm() in flight.
C5_RemovalOnSuccess ==
    \A j \in doneOk :
        /\ RowsOf(schedules, j) = {}
        /\ TimersOf(j) = {}
        /\ AlarmsOf(j) = {}
        /\ \A r \in pending_jobs : r.job_id # j

\* C5 witness: a job delivered in an earlier run, then a crash and a
\* completed restart
C5_Witness ==
    /\ crashes >= 1 /\ mainPc = "polling"
    /\ \E j \in doneOk : alarmCount[j] >= 1 /\ runCount[j] = 0

\* no crash, no delivery error and no storage error so far
FailureFree ==
    crashes = 0 /\ failedRun = {} /\ insertFailed = {} /\ removeFailed = {}

\* C6: exactly once in the failure-free case.  With no crash and no error,
\* every job id handed out has one timer or one dispatch, never both and never
\* two; its record is in the Store from the insert until alarm() returns; and
\* when nothing is armed or under way every job was dispatched exactly once
\* and the Store is empty.
C6_ExactlyOnce ==
    FailureFree =>
        /\ \A j \in usedIds :
              /\ alarmCount[j] + Cardinality(TimersOf(j)) = 1
              /\ runCount[j] = alarmCount[j]
        /\ (Quiescent /\ timers = {}) =>
              /\ \A j \in usedIds : alarmCount[j] = 1
              /\ schedules = {}

\* C6 witness: a job submitted with a delay below one second was dispatched
\* once, nothing failed, nothing is left to do
C6_Witness ==
    /\ FailureFree /\ Quiescent /\ timers = {}
    /\ \E j \in usedIds \ posDelay : j \in doneOk /\ alarmCount[j] = 1

\* C7 (as claimed): Store/timer correspondence.  When the process is up and
\* no step is under way, the stored job ids are the job ids with a live
\* timer, each with exactly one.
C7_StoreTimerCorrespondence ==
    Quiescent =>
        /\ StoredIds(schedules) = TimerIds(timers)
        /\ \A j \in JobIds : Cardinality(TimersOf(j)) <= 1

\* C8: no duplicate timers.  At most one timer is armed per job id, and
\* within one process run alarm() is invoked at most once per job id.
C8_NoDuplicateTimers ==
    \A j \in JobIds :
        /\ Cardinality(TimersOf(j)) <= 1
        /\ runCount[j] <= 1
        /\ Cardinality(TimersOf(j)) + runCount[j] <= 1

\* C8 witness: a job dispatched in one run was armed again by the next run's
\* recovery and dispatched a second time, once in that run
C8_Witness == \E j \in JobIds : alarmCount[j] = 2 /\ runCount[j] = 1

\* C9: a delivery failure keeps the record.  After a send of alarm() raised,
\* for the rest of that run the job's rows are what they were when it raised
\* and no timer is armed for the job.
C9_FailureKeepsRecord ==
    \A f \in failedRun :
        /\ RowsOf(schedules, f.job_id) = f.rows
        /\ TimersOf(f.job_id) = {}

\* C9 witness: a send failed for a job that has a record, and the run went on
C9_Witness ==
    \E f \in failedRun : f.rows # {} /\ Quiescent /\ now > 0

\* C10 (as claimed): Submit fails cleanly on a storage error.  A job whose
\* insert raised has no record and no timer, and is never dispatched.
C10_SubmitFailsCleanly ==
    \A j \in insertFailed :
        /\ RowsOf(schedules, j) = {}
        /\ TimersOf(j) = {}
        /\ alarmCount[j] = 0

\* the request in `sub` is one the claim says is rejected: a stranger's, or one
\* with an argument count other than 3, a delay that is no integer, a command
\* other than /freecredential, or a target id that is not numeric
ClaimRejects(req) ==
    \/ req.user_id # 1
    \/ Len(req.args) # 3
    \/ IF Len(req.args) >= 1 THEN ~IsIntLiteral(req.args[1]) ELSE FALSE
    \/ IF Len(req.args) >= 2 THEN req.args[2] # FREECREDENTIAL ELSE FALSE
    \/ IF Len(req.args) >= 3 THEN ~isdigit(req.args[3]) ELSE FALSE

\* C11: rejected requests mutate nothing.  No step taken while schedule()
\* handles such a request (the process not dying) changes the Store or the
\* set of armed timers, and the handler ends without a job.
C11_RejectedMutateNothing ==
    [][(sub.pc = "start" /\ ClaimRejects(sub) /\ mainPc' # "down")
          => /\ schedules' = schedules
             /\ timers' = timers
             /\ sub'.pc \in {"start", "idle"}]_vars

\* C11 witness: a malformed request from the admin is being handled while a
\* job is stored and armed
C11_Witness ==
    /\ sub.pc = "start" /\ sub.user_id = 1 /\ ClaimRejects(sub)
    /\ schedules # {} /\ timers # {}

\* C12: a non-positive delay is a request error at submission.  schedule()
\* never arms a timer (nor, after it, stores a record) for a request whose
\* delay is zero or negative.
C12_NonPositiveDelayRejected ==
    sub.pc = "armed" =>
        /\ sub.delay_seconds >= 1
        /\ \A t \in TimersOf(sub.job_id) : t.job_id \in posDelay

\* max(0, run_at - t)
Remaining(run_at, t) == IF run_at > t THEN run_at - t ELSE 0

\* C13: the recovered delay is recomputed from the absolute run_at.  Every
\* timer main() arms at startup is armed for max(0, run_at - now) seconds, with
\* run_at the stored record's and now the instant main() read: the delay is
\* never negative, and a record whose run_at is still ahead fires at run_at.
C13_RecoveredDelay ==
    [][(mainPc = "loop" /\ mainPc' = "loop") =>
         \A t \in timers' \ timers :
            /\ t.fireAt - now >= 0
            /\ \E r \in RowsOf(schedules, t.job_id) :
                 /\ t.fireAt - now = Remaining(r.run_at, recNow)
                 /\ (r.run_at >= now => t.fireAt = r.run_at + (now - recNow))]_vars

\* C13 witness: a record submitted with delay 2 at time 0 was recovered at
\* time 1 and its timer is armed for the remaining 1 second, firing at 2
C13_Witness ==
    /\ mainPc = "loop" /\ recNow = 1 /\ now = 1
    /\ \E t \in timers : \E r \in RowsOf(schedules, t.job_id) :
         r.run_at = 2 /\ t.fireAt = 2

\* C14: recovery frame condition.  From process start until run_polling()
\* no step of main() inserts, deletes or updates a record, and the timers it
\* arms are at most one per job id, each for an id the Store holds.
C14_RecoveryFrame ==
    [][mainPc # "polling" =>
         /\ schedules' = schedules
         /\ \A t \in timers' \ timers :
              /\ TimersOf(t.job_id) = {}
              /\ t.job_id \in StoredIds(schedules)
         /\ \A t1, t2 \in timers' : t1.job_id = t2.job_id => t1 = t2]_vars

\* C14 witness: the recovery loop has armed a timer for every stored record
C14_Witness ==
    /\ mainPc = "loop" /\ pending_jobs = {}
    /\ schedules # {}
    /\ TimerIds(timers) = StoredIds(schedules)

\* C15: delete is idempotent.  remove_schedule_from_db on an id without a
\* record leaves the table as it was; applying it a second time to its own
\* result changes nothing; and the records of every other id stay as they were.
C15_DeleteIdempotent ==
    storeOp.op = "remove" =>
        /\ (storeOp.job_id \notin StoredIds(storeOp.before)
               => schedules = storeOp.before)
        /\ remove_schedule_from_db(schedules, storeOp.job_id) = schedules
        /\ storeOp.job_id \notin StoredIds(schedules)
        /\ \A j \in JobIds \ {storeOp.job_id} :
              RowsOf(schedules, j) = RowsOf(storeOp.before, j)

\* C15 witness: a delete of an id without a record, while another id has one
C15_Witness ==
    /\ storeOp.op = "remove"
    /\ storeOp.job_id \notin StoredIds(storeOp.before)
    /\ storeOp.before # {}

\* C16: cancellation.  Once the scheduler has processed a cancel request for
\* a pending job whose timer has not fired, the job has no timer and no record.
C16_Cancellation ==
    [][(/\ sub.pc = "unhandled" /\ sub.command = "cancel"
        /\ TimersOf(sub.job_id) # {}
        /\ alarmCount[sub.job_id] = 0
        /\ sub' = NoSub /\ mainPc' = "polling")
          => /\ {t \in timers' : t.job_id = sub.job_id} = {}
             /\ sub.job_id \notin StoredIds(schedules')]_vars

\* C17: id uniqueness.  The ids generated over all runs are pairwise
\* distinct; the table never holds two records with one job_id; and an insert
\* of an id that has a record fails and leaves the table as it was.
C17_IdUniqueness ==
    /\ \A i, k \in 1..Len(issued) : i # k => issued[i] # issued[k]
    /\ \A r1, r2 \in schedules : r1.job_id = r2.job_id => r1 = r2
    /\ (storeOp.op = "add" /\ storeOp.job_id \in StoredIds(storeOp.before))
          => ~storeOp.ok /\ schedules = storeOp.before
    /\ (storeOp.op = "add" /\ storeOp.job_id \notin StoredIds(storeOp.before))
          => storeOp.ok /\ Cardinality(schedules) = Cardinality(storeOp.before) + 1

\* C17 witness: two ids were generated in a history with a restart, both have
\* records, and an insert of a stored id with another run_at was just refused
C17_Witness ==
    /\ Len(issued) = 2 /\ crashes >= 1
    /\ Cardinality(schedules) = 2
    /\ storeOp.op = "add" /\ ~storeOp.ok
    /\ \E r \in RowsOf(schedules, storeOp.job_id) : r.run_at # storeOp.run_at

\* the three messages of one firing, in the order the claim gives them
ThreeSends(a) == <<NOTICE, a.command, a.details_command>>

\* C18: dispatch ordering.  What an alarm() has sent is always an initial part
\* of: the notice, the primary command, the details command; and a job's
\* record leaves the Store only in a step of an alarm() for that job that has
\* completed all three sends.
C18_DispatchOrdering ==
    [][/\ \A a \in alarms' :
            /\ Len(a.sent) <= 3
            /\ \A i \in 1..Len(a.sent) : a.sent[i].text = ThreeSends(a)[i]
       /\ \A r \in schedules \ schedules' :
            \E a \in alarms \ alarms' :
               /\ a.job_id = r.job_id
               /\ Len(a.sent) = 3
               /\ \A i \in 1..3 : a.sent[i].text = ThreeSends(a)[i]]_vars

\* C18 witness: an alarm() has completed its three sends and the record is
\* still stored: the delete is the next thing it does
C18_Witness ==
    \E a \in alarms :
       /\ Len(a.sent) = 3 /\ a.pc = "remove"
       /\ RowsOf(schedules, a.job_id) # {}

\* C19: acknowledged implies durable.  From the moment schedule() has sent
\* its confirmation reply for a job, through any crash and restart, the Store
\* holds exactly the record that was acknowledged (same id, destination,
\* payload and run_at), until an alarm() of that job has deleted it.
C19_AckedDurable ==
    \A a \in acked :
       a.job_id \notin doneOk => RowsOf(schedules, a.job_id) = {a}

\* C19 witness: a job was acknowledged, the process died and started again,
\* and the acknowledged record is in the Store
C19_Witness ==
    /\ crashes >= 1 /\ mainPc = "polling"
    /\ \E a \in acked : a.job_id \notin doneOk /\ a \in schedules

\* C20: payload integrity.  Every alarm() works on a (job_id, destination,
\* command, details_command) tuple that an accepted request created, the
\* destination being the chat it sends to; and every timer the recovery loop
\* has armed carries the destination and payload of the stored record of its
\* job_id.
C20_PayloadIntegrity ==
    /\ \A a \in alarms :
          [job_id |-> a.job_id, chat_id |-> a.chat_id, command |-> a.command,
           details_command |-> a.details_command] \in submitted
    /\ mainPc = "loop" =>
          \A t \in timers : \E r \in RowsOf(schedules, t.job_id) :
             /\ t.data_chat_id = r.chat_id
             /\ t.command = r.command_to_send
             /\ t.details_command = r.details_command_to_send

====
